---- MODULE Spec2Model ----
(***************************************************************************)
(* Model of script/validate-data/index.ts: the workflow validator that    *)
(* walks the configured folders, validates every regular file's sidecar   *)
(* properties document and its workflow body, and reports the errored     *)
(* workflows through the @actions/core log sink.                          *)
(*                                                                         *)
(* Two specifications share the pure operators:                           *)
(*   SpecFn  one (workflow, properties) pair drawn from FnInputs, to      *)
(*           which validateWorkflowProperties and checkWorkflow are       *)
(*           applied;                                                     *)
(*   Spec    the driver main() and the scanner checkWorkflows() over a    *)
(*           bounded file system.                                         *)
(***************************************************************************)
EXTENDS Integers, Sequences, FiniteSets, TLC

VARIABLES
    mode,          \* "fn" (SpecFn) or "run" (Spec)
    input,         \* SpecFn: the file handed to the validators
    propsOut,      \* SpecFn: outcome of validateWorkflowProperties, or None
    wfOut,         \* SpecFn: outcome of checkWorkflow, or None
    settings,      \* Spec: settings.json ([ok, folders])
    pc,            \* Spec: position of main()
    folderIdx,     \* Spec: index of the folder of the outer for loop
    dir,           \* Spec: the listing of the current folder
    entryIdx,      \* Spec: index of the entry of the inner for loop
    result,        \* Spec: checkWorkflows' local result array
    scan,          \* Spec: "idle", "running", "returned" or "threw"
    calls,         \* Spec: the records checkWorkflow returned, in call order
    log,           \* Spec: lines emitted through info/error/startGroup/endGroup
    failed,        \* Spec: the messages handed to setFailed
    escaped        \* Spec: the exception caught at top level, "" when none

vars == <<mode, input, propsOut, wfOut, settings, pc, folderIdx, dir, entryIdx,
          result, scan, calls, log, failed, escaped>>

fnVars == <<input, propsOut, wfOut>>
runVars == <<settings, pc, folderIdx, dir, entryIdx, result, scan, calls, log,
             failed, escaped>>

None == [t |-> "none"]

(***************************************************************************)
(* Bounds                                                                  *)
(***************************************************************************)
MaxViolations == 2      \* workflow-schema violations of one body
MaxFolders == 2         \* folders in settings.json
MaxEntries == 2         \* directory entries of one folder

(***************************************************************************)
(* JSON values as JSON.parse produces them                                 *)
(***************************************************************************)
Absent == [t |-> "absent"]
JNull == [t |-> "null"]
JStr(s) == [t |-> "string", v |-> s]
JNum(n) == [t |-> "number", v |-> n]
JArr(items) == [t |-> "array", v |-> items]
JObj(fields) == [t |-> "object", v |-> fields]

Octicon == <<"o", "c", "t", "i", "c", "o", "n">>

\* String.prototype.startsWith
StartsWith(s, p) == Len(s) >= Len(p) /\ SubSeq(s, 1, Len(p)) = p

\* JavaScript truthiness of a property value (undefined when absent)
Truthy(v) ==
    CASE v.t = "absent" -> FALSE
      [] v.t = "null" -> FALSE
      [] v.t = "string" -> Len(v.v) > 0
      [] v.t = "number" -> v.v # 0
      [] OTHER -> TRUE

\* properties.<f>: undefined on a primitive or an array, the field of an object
GetProp(doc, f) == IF doc.t = "object" THEN doc.v[f] ELSE Absent

(***************************************************************************)
(* Errors, as the strings the program collects                            *)
(***************************************************************************)
SchemaError(path, what) == [kind |-> "metaSchema", path |-> path, what |-> what]
IconError(name) == [kind |-> "icon", name |-> name]
WorkflowError(i) == [kind |-> "workflowSchema", n |-> i]
ExcError(exc) == [kind |-> "exception", exc |-> exc]

Raise(exc) == [threw |-> TRUE, exc |-> exc, errors |-> <<>>, accessed |-> FALSE]
Return(errors, accessed) ==
    [threw |-> FALSE, exc |-> "", errors |-> errors, accessed |-> accessed]

(***************************************************************************)
(* propertiesSchema and the jsonschema validation of a document           *)
(***************************************************************************)
StringProps == <<"name", "description", "creator", "iconName">>

Required(f) == f \in {"name", "description", "iconName", "categories"}

\* { type: "string", required: r }
StringPropErrors(f, v) ==
    IF v.t = "absent"
    THEN IF Required(f) THEN <<SchemaError(f, "required")>> ELSE <<>>
    ELSE IF v.t = "string" THEN <<>> ELSE <<SchemaError(f, "type")>>

IsStringArray(v) ==
    v.t = "array" /\ \A i \in 1..Len(v.v) : v.v[i].t = "string"

\* { anyOf: [ array of strings, null ], required: true }
CategoriesErrors(v) ==
    IF v.t = "absent"
    THEN IF Required("categories")
         THEN <<SchemaError("categories", "required")>> ELSE <<>>
    ELSE IF IsStringArray(v) \/ v.t = "null" THEN <<>>
         ELSE <<SchemaError("categories", "anyOf")>>

RECURSIVE StringPropsErrors(_, _)
StringPropsErrors(doc, i) ==
    IF i > Len(StringProps) THEN <<>>
    ELSE StringPropErrors(StringProps[i], doc.v[StringProps[i]])
             \o StringPropsErrors(doc, i + 1)

\* v.validate(properties, propertiesSchema).errors.map(e => e.toString())
propertiesSchemaErrors(doc) ==
    IF doc.t # "object" THEN <<SchemaError("", "type")>>
    ELSE StringPropsErrors(doc, 1) \o CategoriesErrors(doc.v["categories"])

(***************************************************************************)
(* validateWorkflowProperties(propertiesPath)                              *)
(*   meta.load   "ok", "missing" (readFile rejects) or "corrupt"          *)
(*               (JSON.parse throws)                                      *)
(*   meta.doc    the parsed document                                      *)
(*   meta.engine "ok" or "raises" (the schema engine throws)              *)
(*   meta.icons  the names n for which ../../icons/<n>.svg exists         *)
(***************************************************************************)
validateWorkflowProperties_AlwaysAccess(meta) ==
    IF meta.load = "missing" THEN Raise("ENOENT")
    ELSE IF meta.load = "corrupt" THEN Raise("SyntaxError")
    ELSE IF meta.engine = "raises" THEN Raise("SchemaError")
    ELSE
      LET errors == propertiesSchemaErrors(meta.doc)
          icon == GetProp(meta.doc, "iconName")
      IN IF meta.doc.t = "null" THEN Raise("TypeError")
         ELSE IF ~Truthy(icon) THEN Return(errors, FALSE)
         ELSE IF icon.t # "string" THEN Raise("TypeError")
         ELSE IF icon.v \in meta.icons THEN Return(errors, TRUE)
         ELSE Return(Append(errors, IconError(icon.v)), TRUE)

validateWorkflowProperties(meta) ==
    IF meta.load = "missing" THEN Raise("ENOENT")
    ELSE IF meta.load = "corrupt" THEN Raise("SyntaxError")
    ELSE IF meta.engine = "raises" THEN Raise("SchemaError")
    ELSE
      LET errors == propertiesSchemaErrors(meta.doc)
          icon == GetProp(meta.doc, "iconName")
      IN \* properties.iconName on null throws a TypeError
         IF meta.doc.t = "null" THEN Raise("TypeError")
         ELSE IF ~Truthy(icon) THEN Return(errors, FALSE)
         \* only a string has startsWith: calling undefined throws a TypeError
         ELSE IF icon.t # "string" THEN Raise("TypeError")
         ELSE IF StartsWith(icon.v, Octicon) THEN Return(errors, FALSE)
         ELSE IF icon.v \in meta.icons THEN Return(errors, TRUE)
         ELSE Return(Append(errors, IconError(icon.v)), TRUE)

(***************************************************************************)
(* checkWorkflow(workflowPath, propertiesPath)                             *)
(*   file.body   [kind, violations]: kind is "readFails" (readFile       *)
(*               rejects), "parseFails" (safeLoad throws), "validateFails"*)
(*               (require or validate throws) or "parsed", with the       *)
(*               number of workflow-schema violations of the parsed body  *)
(***************************************************************************)
WorkflowViolations(n) == [i \in 1..n |-> WorkflowError(i)]

Body(kind, n) == [kind |-> kind, violations |-> n]

BodyRaises(body) == body.kind \in {"readFails", "parseFails", "validateFails"}

BodyExc(body) ==
    CASE body.kind = "readFails" -> "ENOENT"
      [] body.kind = "parseFails" -> "YAMLException"
      [] OTHER -> "SchemaError"

Returned(path, errors) == [threw |-> FALSE, exc |-> "", id |-> path, errors |-> errors]
Thrown(path, exc) == [threw |-> TRUE, exc |-> exc, id |-> path, errors |-> <<>>]

\* mutant: the try block ends after the metadata validation
checkWorkflow_BodyUncaught(path, file) ==
    LET m == validateWorkflowProperties(file.meta)
    IN IF m.threw THEN Returned(path, <<ExcError(m.exc)>>)
       ELSE IF BodyRaises(file.body)
            THEN Thrown(path, BodyExc(file.body))
            ELSE Returned(path, m.errors \o WorkflowViolations(file.body.violations))

\* mutant: the try block starts after the metadata validation
checkWorkflow_MetaUncaught(path, file) ==
    LET m == validateWorkflowProperties(file.meta)
    IN IF m.threw THEN Thrown(path, m.exc)
       ELSE IF BodyRaises(file.body)
            THEN Returned(path, Append(m.errors, ExcError(BodyExc(file.body))))
            ELSE Returned(path, m.errors \o WorkflowViolations(file.body.violations))

\* mutant: the catch block assigns the exception instead of pushing it
checkWorkflow_CatchAssigns(path, file) ==
    LET m == validateWorkflowProperties(file.meta)
    IN IF m.threw THEN Returned(path, <<ExcError(m.exc)>>)
       ELSE IF BodyRaises(file.body)
            THEN Returned(path, <<ExcError(BodyExc(file.body))>>)
            ELSE Returned(path, m.errors \o WorkflowViolations(file.body.violations))

\* mutant: the workflow violations are concatenated in front
checkWorkflow_ConcatFront(path, file) ==
    LET m == validateWorkflowProperties(file.meta)
    IN IF m.threw THEN Returned(path, <<ExcError(m.exc)>>)
       ELSE IF BodyRaises(file.body)
            THEN Returned(path, Append(m.errors, ExcError(BodyExc(file.body))))
            ELSE Returned(path, WorkflowViolations(file.body.violations) \o m.errors)

checkWorkflow(path, file) ==
    LET m == validateWorkflowProperties(file.meta)
    IN \* the rejection is caught with errors still []: one pushed exception
       IF m.threw THEN Returned(path, <<ExcError(m.exc)>>)
       \* readFile, safeLoad, require or validate throws: pushed after the
       \* metadata errors, the concat of line 108 never runs
       ELSE IF BodyRaises(file.body)
            THEN Returned(path, Append(m.errors, ExcError(BodyExc(file.body))))
            ELSE Returned(path, m.errors \o WorkflowViolations(file.body.violations))

(***************************************************************************)
(* SpecFn: the validators applied to one file                              *)
(***************************************************************************)
PlainVals == {Absent, JStr(<<"a">>), JNum(1)}

IconNames == {<<>>, Octicon, Octicon \o <<"-", "x">>, <<"o", "c", "t">>, <<"x">>}

IconVals == {Absent, JNull, JNum(0), JNum(1)} \cup {JStr(s) : s \in IconNames}

CategoryVals ==
    {Absent, JNull, JStr(<<"a">>), JArr(<<>>), JArr(<<JStr(<<"a">>)>>),
     JArr(<<JNum(1)>>)}

ObjectDocs ==
    {JObj([name |-> n, description |-> d, creator |-> c, iconName |-> i,
           categories |-> g]) :
        n \in PlainVals, d \in PlainVals, c \in {Absent, JStr(<<"a">>)},
        i \in IconVals, g \in CategoryVals}

IconDirs == SUBSET {<<"x">>, Octicon \o <<"-", "x">>}

Meta(load, doc, engine, icons) ==
    [load |-> load, doc |-> doc, engine |-> engine, icons |-> icons]

ValidDoc ==
    JObj([name |-> JStr(<<"a">>), description |-> JStr(<<"a">>),
          creator |-> Absent, iconName |-> JStr(Octicon), categories |-> JNull])

Metas ==
    {Meta("ok", d, "ok", s) : d \in ObjectDocs, s \in IconDirs}
    \cup {Meta("ok", d, "ok", {}) : d \in {JNull, JNum(1), JArr(<<>>)}}
    \cup {Meta(l, ValidDoc, "ok", {}) : l \in {"missing", "corrupt"}}
    \cup {Meta("ok", ValidDoc, "raises", {})}

Bodies ==
    {Body(k, 0) : k \in {"readFails", "parseFails", "validateFails"}}
    \cup {Body("parsed", n) : n \in 0..MaxViolations}

Paths == {"ci/a.yml", "ci/b.yml"}

FnInputs == [path : Paths, meta : Metas, body : Bodies]

InitFn ==
    /\ mode = "fn"
    /\ input \in FnInputs
    /\ propsOut = None
    /\ wfOut = None
    /\ settings = None
    /\ pc = "idle"
    /\ folderIdx = 0
    /\ dir = <<>>
    /\ entryIdx = 0
    /\ result = <<>>
    /\ scan = "idle"
    /\ calls = <<>>
    /\ log = <<>>
    /\ failed = <<>>
    /\ escaped = ""

CallValidateWorkflowProperties ==
    /\ mode = "fn"
    /\ propsOut = None
    /\ propsOut' = validateWorkflowProperties(input.meta)
    /\ UNCHANGED <<mode, input, wfOut>>
    /\ UNCHANGED runVars

CallCheckWorkflow ==
    /\ mode = "fn"
    /\ wfOut = None
    /\ wfOut' = checkWorkflow(input.path, input)
    /\ UNCHANGED <<mode, input, propsOut>>
    /\ UNCHANGED runVars

NextFn == CallValidateWorkflowProperties \/ CallCheckWorkflow

SpecFn == InitFn /\ [][NextFn]_vars

(***************************************************************************)
(* Spec: main() and checkWorkflows(settings.folders)                       *)
(*   a folder is [listable, entries]; readdir rejects when not listable   *)
(*   an entry is [isFile, file]; file is what checkWorkflow meets there   *)
(***************************************************************************)
GoodFile == [meta |-> Meta("ok", ValidDoc, "ok", {}), body |-> Body("parsed", 0)]

\* the properties document lacks name, the body does not parse
BrokenFile ==
    [meta |-> Meta("ok", JObj([ValidDoc.v EXCEPT !.name = Absent]), "ok", {}),
     body |-> Body("parseFails", 0)]

ScanFiles == {GoodFile, BrokenFile}

Entries ==
    {[isFile |-> FALSE, file |-> GoodFile]}
    \cup {[isFile |-> TRUE, file |-> f] : f \in ScanFiles}

SeqsUpTo(S, n) == UNION {[1..k -> S] : k \in 0..n}

Folders ==
    {[listable |-> FALSE, entries |-> <<>>]}
    \cup {[listable |-> TRUE, entries |-> es] : es \in SeqsUpTo(Entries, MaxEntries)}

\* settings.json: the folder list, or a document that cannot be required
Settings ==
    {[ok |-> FALSE, folders |-> <<>>]}
    \cup {[ok |-> TRUE, folders |-> fs] : fs \in SeqsUpTo(Folders, MaxFolders)}

\* join(folder, e.name)
Join(k, j) == <<k, j>>

Init ==
    /\ mode = "run"
    /\ input = None
    /\ propsOut = None
    /\ wfOut = None
    /\ settings \in Settings
    /\ pc = "start"
    /\ folderIdx = 0
    /\ dir = <<>>
    /\ entryIdx = 0
    /\ result = <<>>
    /\ scan = "idle"
    /\ calls = <<>>
    /\ log = <<>>
    /\ failed = <<>>
    /\ escaped = ""

Info(text) == [level |-> "info", text |-> text]
StartGroup(n) == [level |-> "startGroup", count |-> n]
EndGroup == [level |-> "endGroup"]
ErrorLine(w) == [level |-> "error", id |-> w.id, errors |-> w.errors]
Unhandled(exc) == [level |-> "error", unhandled |-> exc]

\* erroredWorkflows.forEach(w => error(...))
ErrorLines(ws) == [i \in 1..Len(ws) |-> ErrorLine(ws[i])]

\* main, lines 118-120: require settings.json, call checkWorkflows
MainStart ==
    /\ mode = "run"
    /\ pc = "start"
    /\ IF settings.ok
       THEN /\ pc' = "folder"
            /\ scan' = "running"
            /\ folderIdx' = 1
            /\ escaped' = escaped
       ELSE /\ pc' = "caught"
            /\ escaped' = "MODULE_NOT_FOUND"
            /\ UNCHANGED <<scan, folderIdx>>
    /\ UNCHANGED <<settings, dir, entryIdx, result, calls, log, failed>>
    /\ UNCHANGED <<mode, input, propsOut, wfOut>>

\* mutant: a folder that cannot be listed is skipped
ReadDir_SkipUnlistable ==
    /\ mode = "run"
    /\ pc = "folder"
    /\ IF folderIdx > Len(settings.folders)
       THEN /\ pc' = "report"
            /\ scan' = "returned"
            /\ UNCHANGED <<dir, entryIdx, escaped, folderIdx>>
       ELSE IF settings.folders[folderIdx].listable
       THEN /\ dir' = settings.folders[folderIdx].entries
            /\ entryIdx' = 1
            /\ pc' = "entry"
            /\ UNCHANGED <<scan, escaped, folderIdx>>
       ELSE /\ folderIdx' = folderIdx + 1
            /\ UNCHANGED <<pc, scan, escaped, dir, entryIdx>>
    /\ UNCHANGED <<settings, result, calls, log, failed>>
    /\ UNCHANGED <<mode, input, propsOut, wfOut>>

\* checkWorkflows, lines 45-48 and 65: next folder of the outer loop
ReadDir ==
    /\ mode = "run"
    /\ pc = "folder"
    /\ IF folderIdx > Len(settings.folders)
       THEN \* return result
            /\ pc' = "report"
            /\ scan' = "returned"
            /\ UNCHANGED <<dir, entryIdx, escaped>>
       ELSE IF settings.folders[folderIdx].listable
       THEN /\ dir' = settings.folders[folderIdx].entries
            /\ entryIdx' = 1
            /\ pc' = "entry"
            /\ UNCHANGED <<scan, escaped>>
       ELSE \* readdir rejects: nothing in checkWorkflows catches it
            /\ pc' = "caught"
            /\ scan' = "threw"
            /\ escaped' = "ENOENT"
            /\ UNCHANGED <<dir, entryIdx>>
    /\ UNCHANGED <<settings, folderIdx, result, calls, log, failed>>
    /\ UNCHANGED <<mode, input, propsOut, wfOut>>

\* mutant: every record is pushed
Retained_All(w) == TRUE

\* line 58: errors.errors.length > 0
Retained(w) == Len(w.errors) > 0

\* checkWorkflows, lines 50-62: next entry of the inner loop
VisitEntry ==
    /\ mode = "run"
    /\ pc = "entry"
    /\ IF entryIdx > Len(dir)
       THEN /\ folderIdx' = folderIdx + 1
            /\ pc' = "folder"
            /\ UNCHANGED <<entryIdx, result, calls, scan, escaped>>
       ELSE IF ~dir[entryIdx].isFile
       THEN /\ entryIdx' = entryIdx + 1
            /\ UNCHANGED <<folderIdx, pc, result, calls, scan, escaped>>
       ELSE LET w == checkWorkflow(Join(folderIdx, entryIdx), dir[entryIdx].file)
            IN IF w.threw
               THEN /\ pc' = "caught"
                    /\ scan' = "threw"
                    /\ escaped' = w.exc
                    /\ UNCHANGED <<folderIdx, entryIdx, result, calls>>
               ELSE /\ calls' = Append(calls, w)
                    /\ result' = IF Retained(w) THEN Append(result, w) ELSE result
                    /\ entryIdx' = entryIdx + 1
                    /\ UNCHANGED <<folderIdx, pc, scan, escaped>>
    /\ UNCHANGED <<settings, dir, log, failed>>
    /\ UNCHANGED <<mode, input, propsOut, wfOut>>

\* mutant: the failure mark is left out
MainReport_NoSetFailed ==
    /\ mode = "run"
    /\ pc = "report"
    /\ IF Len(result) > 0
       THEN /\ log' = log \o <<Info("took"), StartGroup(Len(result))>>
                         \o ErrorLines(result) \o <<EndGroup>>
            /\ failed' = failed
       ELSE /\ log' = log \o <<Info("took"), Info("no errors")>>
            /\ failed' = failed
    /\ pc' = "done"
    /\ UNCHANGED <<settings, folderIdx, dir, entryIdx, result, scan, calls, escaped>>
    /\ UNCHANGED <<mode, input, propsOut, wfOut>>

\* main, lines 123-135: the timing line, then the report or the success line
MainReport ==
    /\ mode = "run"
    /\ pc = "report"
    /\ IF Len(result) > 0
       THEN /\ log' = log \o <<Info("took"), StartGroup(Len(result))>>
                         \o ErrorLines(result) \o <<EndGroup>>
            /\ failed' = Append(failed, [found |-> Len(result)])
       ELSE /\ log' = log \o <<Info("took"), Info("no errors")>>
            /\ failed' = failed
    /\ pc' = "done"
    /\ UNCHANGED <<settings, folderIdx, dir, entryIdx, result, scan, calls, escaped>>
    /\ UNCHANGED <<mode, input, propsOut, wfOut>>

\* main, lines 136-139: the top-level catch
MainCatch ==
    /\ mode = "run"
    /\ pc = "caught"
    /\ log' = Append(log, Unhandled(escaped))
    /\ failed' = Append(failed, [unhandled |-> TRUE])
    /\ pc' = "done"
    /\ UNCHANGED <<settings, folderIdx, dir, entryIdx, result, scan, calls, escaped>>
    /\ UNCHANGED <<mode, input, propsOut, wfOut>>

Next == MainStart \/ ReadDir \/ VisitEntry \/ MainReport \/ MainCatch

Spec == Init /\ [][Next]_vars

(***************************************************************************)
(* What the file system holds, read off settings alone                     *)
(***************************************************************************)
Done(x) == "threw" \in DOMAIN x

NFolders == Len(settings.folders)

\* index of the first folder readdir rejects, NFolders + 1 when there is none
FirstUnlistable ==
    IF \A k \in 1..NFolders : settings.folders[k].listable THEN NFolders + 1
    ELSE CHOOSE k \in 1..NFolders :
            /\ ~settings.folders[k].listable
            /\ \A h \in 1..(k - 1) : settings.folders[h].listable

AllListable == settings.ok /\ FirstUnlistable = NFolders + 1

IsRegular(x) == x.entry.isFile

\* the regular files of folder k, in directory-listing order
FilesOf(k) ==
    LET es == settings.folders[k].entries
    IN SelectSeq([j \in 1..Len(es) |-> [id |-> Join(k, j), entry |-> es[j]]],
                 IsRegular)

\* the regular files of folders 1..k, in folder order
RECURSIVE FilesUpTo(_)
FilesUpTo(k) == IF k = 0 THEN <<>> ELSE FilesUpTo(k - 1) \o FilesOf(k)

Ids(ws) == [i \in 1..Len(ws) |-> ws[i].id]

HasErrors(w) == w.errors # <<>>

\* the record of each discovered file
RecordsOf(fs) == [i \in 1..Len(fs) |-> checkWorkflow(fs[i].id, fs[i].entry.file)]

InLog(line) == \E i \in 1..Len(log) : log[i] = line

Kinds(errors) == [i \in 1..Len(errors) |-> errors[i].kind]

Count(kinds, k) == Cardinality({i \in 1..Len(kinds) : kinds[i] = k})

StageRank(k) ==
    CASE k = "metaSchema" -> 1
      [] k = "icon" -> 2
      [] k = "workflowSchema" -> 3
      [] k = "exception" -> 4

IsSeq(x) == DOMAIN x = 1..Len(x)

Icon == GetProp(input.meta.doc, "iconName")

BuiltinNames == {Octicon, Octicon \o <<"-", "x">>}

Parses == input.meta.load = "ok" /\ input.meta.engine = "ok"

HasIconError(errors) == \E i \in 1..Len(errors) : errors[i].kind = "icon"

(***************************************************************************)
(* C1: checkWorkflow never throws: whatever the outcome of metadata        *)
(* loading, metadata validation, the icon check, reading, parsing and      *)
(* validating the body, it returns a record whose id is the workflow path  *)
(* and whose errors are a (possibly empty) list.                           *)
(***************************************************************************)
C1_NeverThrows ==
    Done(wfOut) =>
        /\ ~wfOut.threw
        /\ wfOut.id = input.path
        /\ IsSeq(wfOut.errors)

C1_Witness ==
    /\ Done(wfOut)
    /\ Done(propsOut)
    /\ propsOut.threw
    /\ wfOut.errors # <<>>

(***************************************************************************)
(* C2: when every folder lists, the result of checkWorkflows is the        *)
(* sequence of the records of the discovered regular files (folder order,  *)
(* then listing order) restricted to those with a non-empty error list.    *)
(***************************************************************************)
C2_ResultIsFilteredDiscovery ==
    scan = "returned" =>
        /\ result = SelectSeq(RecordsOf(FilesUpTo(NFolders)), HasErrors)
        /\ \A i \in 1..Len(result) : Len(result[i].errors) > 0

C2_Witness ==
    /\ scan = "returned"
    /\ Len(result) = 2
    /\ result[1].id[1] # result[2].id[1]
    /\ Len(calls) > Len(result)

(***************************************************************************)
(* C3: at the end of a run setFailed has been called iff the scan returned *)
(* an errored workflow or an exception escaped the pass; otherwise (also   *)
(* with no folders configured) the success line is emitted; never both.    *)
(***************************************************************************)
C3_FailedIffErrorsOrException ==
    pc = "done" =>
        LET records == RecordsOf(FilesUpTo(NFolders))
            errored == \E i \in 1..Len(records) : HasErrors(records[i])
            broken == ~AllListable
        IN /\ (failed # <<>>) <=> (broken \/ (scan = "returned" /\ errored))
           /\ broken <=> (escaped # "")
           /\ InLog(Info("no errors")) <=> (failed = <<>>)
           /\ Len(failed) <= 1
           /\ (settings.ok /\ NFolders = 0) => InLog(Info("no errors"))

C3_Witness ==
    /\ pc = "done"
    /\ scan = "returned"
    /\ failed = <<[found |-> 1]>>
    /\ Len(calls) = 2

C6_EveryErrorLogged ==
    pc = "done" =>
        /\ \A i \in 1..Len(calls) : \A j \in 1..Len(calls[i].errors) :
               \E n \in 1..Len(log) :
                  /\ "id" \in DOMAIN log[n]
                  /\ log[n].id = calls[i].id
                  /\ \E m \in 1..Len(log[n].errors) :
                        log[n].errors[m] = calls[i].errors[j]
        /\ escaped # "" => InLog(Unhandled(escaped))

(***************************************************************************)
(* C7: a folder that cannot be listed is fatal: checkWorkflows raises      *)
(* without a result, no file of that folder or of a later one is           *)
(* validated, and main catches the failure, logs it and marks the process  *)
(* failed.                                                                 *)
(***************************************************************************)
C7_UnlistableFolderIsFatal ==
    (settings.ok /\ ~AllListable) =>
        /\ \A i \in 1..Len(calls) : calls[i].id[1] < FirstUnlistable
        /\ folderIdx <= FirstUnlistable
        /\ scan # "returned"
        /\ pc = "done" =>
              /\ scan = "threw"
              /\ Ids(calls) = Ids(FilesUpTo(FirstUnlistable - 1))
              /\ log = <<Unhandled("ENOENT")>>
              /\ failed = <<[unhandled |-> TRUE]>>

C7_Witness ==
    /\ pc = "done"
    /\ settings.ok
    /\ FirstUnlistable = 2
    /\ NFolders = 2
    /\ Len(calls) = 2
    /\ Len(settings.folders[2].entries) = 0
    /\ scan = "threw"

(***************************************************************************)
(* C8 as claimed: for every metadata document (an object that loads and    *)
(* parses) missing name, description or iconName, whatever the other       *)
(* fields hold, validateWorkflowProperties returns a list containing a     *)
(* violation for that field.                                               *)
(***************************************************************************)
C8_MissingFieldReported ==
    (Done(propsOut) /\ Parses /\ input.meta.doc.t = "object") =>
        \A f \in {"name", "description", "iconName"} :
            input.meta.doc.v[f] = Absent =>
                /\ ~propsOut.threw
                /\ \E i \in 1..Len(propsOut.errors) :
                      /\ propsOut.errors[i].kind = "metaSchema"
                      /\ propsOut.errors[i].path = f

C10_ErrorsOrderedByStage ==
    Done(wfOut) =>
        LET ks == Kinds(wfOut.errors)
        IN /\ \A i \in 1..Len(ks) : \A j \in 1..Len(ks) :
                 i < j => StageRank(ks[i]) <= StageRank(ks[j])
           /\ Count(ks, "exception") <= 1
           /\ Count(ks, "icon") <= 1

C10_Witness ==
    /\ Done(wfOut)
    /\ Count(Kinds(wfOut.errors), "metaSchema") >= 2
    /\ Count(Kinds(wfOut.errors), "icon") = 1
    /\ Count(Kinds(wfOut.errors), "workflowSchema") = 2

====
